---- MODULE Spec2Model ----
(***************************************************************************)
(* A model of the trading-data API (src/app.py): the /data handler         *)
(* (get_data), the indicator engine (calculate_indicators) and the /multi  *)
(* batch handler (get_multi_data).                                         *)
(*                                                                         *)
(* Prices are integers (ticks).  A float that may be NaN is an optional    *)
(* value: <<>> is NaN ("missing"), <<v>> is the number v.  Every           *)
(* comparison with NaN is false and arithmetic on NaN gives NaN, as in     *)
(* IEEE / numpy.                                                           *)
(*                                                                         *)
(* The columns the repository computes with pandas rolling windows         *)
(* (resistance, support) are modelled row by row.  The columns computed by *)
(* the ta library are external: the model keeps the value of their latest  *)
(* row only (the only row the handler reads), chosen by the environment,   *)
(* and missing while the series is shorter than the indicator's window.    *)
(***************************************************************************)
EXTENDS Integers, Sequences, FiniteSets, TLC

VARIABLES pc, request, hist, df, response, results, si, ii, calls

vars == <<pc, request, hist, df, response, results, si, ii, calls>>

----------------------------------------------------------------------------
(* Bounds of the model *)

MaxBars == 52
MaxSymbols == 2
MaxIntervals == 2
MaxMultiBars == 2
BasePrice == 100

(* Constants of the program *)

RollWindow == 50
RsiWindow == 14
BollWindow == 20
AtrWindow == 14
StochWindow == 14
StochSmooth == 3
Ema20Window == 20
Ema50Window == 50
Ema200Window == 200
MacdSlow == 26
MacdSign == 9
RsiOverbought == 70
RsiOversold == 30
DefaultBars == 100
TailRows == 10
HTTP_OK == 200
HTTP_BAD_REQUEST == 400
HTTP_SERVER_ERROR == 500

INTERVALS == {"1min", "5min", "15min", "30min", "1h", "2h", "4h", "1D", "1W"}

SYMBOLS == {"XAUUSD", "XAGUSD", "DXY"}

----------------------------------------------------------------------------
(* Floats that may be NaN *)

NaN == <<>>

Num(v) == <<v>>

IsNaN(x) == x = NaN

Gt(a, b) == ~IsNaN(a) /\ ~IsNaN(b) /\ a[1] > b[1]

Lt(a, b) == ~IsNaN(a) /\ ~IsNaN(b) /\ a[1] < b[1]

Sub(a, b) == IF IsNaN(a) \/ IsNaN(b) THEN NaN ELSE Num(a[1] - b[1])

Add(a, b) == IF IsNaN(a) \/ IsNaN(b) THEN NaN ELSE Num(a[1] + b[1])

Abs(a) == IF IsNaN(a) THEN NaN ELSE IF a[1] < 0 THEN Num(0 - a[1]) ELSE a

(* (a / b) * 100 kept as an exact fraction *)
Pct(a, b) == IF IsNaN(a) \/ IsNaN(b) THEN NaN ELSE <<a[1] * 100, b[1]>>

Max2(a, b) == IF a >= b THEN a ELSE b

Min2(a, b) == IF a <= b THEN a ELSE b

----------------------------------------------------------------------------
(* The Bar Series the provider returns (tv.get_hist): a DataFrame.         *)
(* index: the number of rows; cols: the row-by-row columns; latest: the    *)
(* latest row of the columns the ta library computes.                      *)

NoFrame == [index |-> 0, cols |-> <<>>, latest |-> <<>>]

Shapes == {"flat", "rising", "falling", "peak"}

LastCloses == {"low", "mid", "high"}

PeakAt == 2

(* The typical price of bar i of a series of the given shape *)
Mid(shape, i) ==
    CASE shape = "flat"    -> BasePrice
      [] shape = "rising"  -> BasePrice + i
      [] shape = "falling" -> BasePrice + MaxBars + 1 - i
      [] shape = "peak"    -> IF i = PeakAt THEN BasePrice + 5 ELSE BasePrice

(* low <= close <= high in every bar; the latest bar closes at its low,    *)
(* in its middle or at its high                                            *)
Bars(n, shape, last) ==
    [index  |-> n,
     cols   |-> [c \in {"high", "low", "close"} |->
                   [i \in 1..n |->
                      CASE c = "high" -> Num(Mid(shape, i) + 1)
                        [] c = "low"  -> Num(Mid(shape, i) - 1)
                        [] c = "close" ->
                             IF i < n \/ last = "mid" THEN Num(Mid(shape, i))
                             ELSE IF last = "low" THEN Num(Mid(shape, i) - 1)
                             ELSE Num(Mid(shape, i) + 1)]],
     latest |-> <<>>]

Columns(frame) == DOMAIN frame.cols \cup DOMAIN frame.latest

----------------------------------------------------------------------------
(* pandas: Series.rolling(window).max() / .min(), min_periods = window.    *)
(* Row i is NaN until the window holds `window` observations.              *)

RECURSIVE FoldMax(_, _, _)
FoldMax(col, lo, hi) ==
    IF lo = hi THEN col[hi][1]
    ELSE Max2(col[hi][1], FoldMax(col, lo, hi - 1))

RECURSIVE FoldMin(_, _, _)
FoldMin(col, lo, hi) ==
    IF lo = hi THEN col[hi][1]
    ELSE Min2(col[hi][1], FoldMin(col, lo, hi - 1))

(* A variant: an expanding window (the maximum of all rows so far) *)
RollingMax_Expanding(col, window) ==
    [i \in 1..Len(col) |->
        IF i < window THEN NaN ELSE Num(FoldMax(col, 1, i))]

(* A variant: the window ends at the row before the current one *)
RollingMax_Shifted(col, window) ==
    [i \in 1..Len(col) |->
        IF i <= window THEN NaN ELSE Num(FoldMax(col, i - window, i - 1))]

RollingMax(col, window) ==
    [i \in 1..Len(col) |->
        IF i < window THEN NaN ELSE Num(FoldMax(col, i - window + 1, i))]

RollingMin(col, window) ==
    [i \in 1..Len(col) |->
        IF i < window THEN NaN ELSE Num(FoldMin(col, i - window + 1, i))]

----------------------------------------------------------------------------
(* The ta library's columns, latest row.  A column is NaN while the series *)
(* is shorter than its window; otherwise its value is the environment's.   *)

Warm(window, n, v) == IF n < window THEN NaN ELSE Num(v)

(* The latest values the library may compute on a series of n bars whose   *)
(* latest close is `close`.                                                *)
LibOutcomes(n, close) ==
    {[rsi |-> r, macd |-> m[1], macd_signal |-> m[2],
      bb_middle |-> b, atr |-> a, ema_20 |-> e[1], ema_50 |-> e[2]] :
        r \in {Warm(RsiWindow, n, v) : v \in {20, 50, 80}},
        m \in {<<Warm(MacdSlow, n, v[1]), Warm(MacdSlow + MacdSign - 1, n, v[2])>> :
                  v \in {<<0, 0>>, <<0, 1>>, <<1, 0>>}},
        b \in {Warm(BollWindow, n, v) : v \in {close - 1, close}},
        a \in {Warm(AtrWindow, n, v) : v \in {0, 1}},
        e \in {<<Warm(Ema20Window, n, close + v[1]), Warm(Ema50Window, n, close + v[1] + v[2])>> :
                  v \in {-1, 0, 1} \X {-1, 0, 1}}}

(* ta's AverageTrueRange indexes row AtrWindow - 1 of the series: on a     *)
(* shorter series it raises in some versions of the library and yields NaN *)
(* in others.                                                              *)
LibMayRaise(n) == n < AtrWindow

----------------------------------------------------------------------------
(* calculate_indicators(df): adds the indicator columns to df, in the      *)
(* order of the source, and returns df.  lib is the ta library's answer    *)
(* for this series: lib.raises when AverageTrueRange raises, after the     *)
(* RSI, MACD and Bollinger columns were added; lib.v the latest values.    *)

(* A variant: the high column is overwritten by its rolling maximum *)
calculate_indicators_Overwrites(frame, lib) ==
    [raised |-> lib.raises,
     frame  |->
        [index  |-> frame.index,
         cols   |-> [c \in DOMAIN frame.cols \cup {"resistance", "support"} |->
                       CASE c \in {"resistance", "high"} ->
                                RollingMax(frame.cols["high"], RollWindow)
                         [] c = "support" -> RollingMin(frame.cols["low"], RollWindow)
                         [] OTHER         -> frame.cols[c]],
         latest |-> [rsi         |-> lib.v.rsi,
                     macd        |-> lib.v.macd,
                     macd_signal |-> lib.v.macd_signal,
                     macd_diff   |-> Sub(lib.v.macd, lib.v.macd_signal),
                     bb_upper    |-> Add(lib.v.bb_middle, Num(2)),
                     bb_middle   |-> lib.v.bb_middle,
                     bb_lower    |-> Sub(lib.v.bb_middle, Num(2)),
                     atr         |-> lib.v.atr,
                     stoch_k     |-> Warm(StochWindow, frame.index, 50),
                     stoch_d     |-> Warm(StochWindow + StochSmooth - 1, frame.index, 50),
                     ema_20      |-> lib.v.ema_20,
                     ema_50      |-> lib.v.ema_50,
                     ema_200     |-> Warm(Ema200Window, frame.index, BasePrice)]]]

calculate_indicators(frame, lib) ==
    IF lib.raises
    THEN [raised |-> TRUE,
          frame  |-> [frame EXCEPT !.latest =
                         [rsi         |-> lib.v.rsi,
                          macd        |-> lib.v.macd,
                          macd_signal |-> lib.v.macd_signal,
                          macd_diff   |-> Sub(lib.v.macd, lib.v.macd_signal),
                          bb_upper    |-> Add(lib.v.bb_middle, Num(2)),
                          bb_middle   |-> lib.v.bb_middle,
                          bb_lower    |-> Sub(lib.v.bb_middle, Num(2))]]]
    ELSE [raised |-> FALSE,
          frame  |->
            [index  |-> frame.index,
             cols   |-> [c \in DOMAIN frame.cols \cup {"resistance", "support"} |->
                           CASE c = "resistance" -> RollingMax(frame.cols["high"], RollWindow)
                             [] c = "support"    -> RollingMin(frame.cols["low"], RollWindow)
                             [] OTHER            -> frame.cols[c]],
             latest |-> [rsi         |-> lib.v.rsi,
                         macd        |-> lib.v.macd,
                         macd_signal |-> lib.v.macd_signal,
                         macd_diff   |-> Sub(lib.v.macd, lib.v.macd_signal),
                         bb_upper    |-> Add(lib.v.bb_middle, Num(2)),
                         bb_middle   |-> lib.v.bb_middle,
                         bb_lower    |-> Sub(lib.v.bb_middle, Num(2)),
                         atr         |-> lib.v.atr,
                         stoch_k     |-> Warm(StochWindow, frame.index, 50),
                         stoch_d     |-> Warm(StochWindow + StochSmooth - 1, frame.index, 50),
                         ema_20      |-> lib.v.ema_20,
                         ema_50      |-> lib.v.ema_50,
                         ema_200     |-> Warm(Ema200Window, frame.index, BasePrice)]]]

----------------------------------------------------------------------------
(* Requests and responses *)

EmptyArgs == [k \in {} |-> ""]

EmptyDict == [k \in {} |-> ""]

ArgGet(args, k, d) == IF k \in DOMAIN args THEN args[k] ELSE d

Digits == {"0", "1", "2", "3", "4", "5", "6", "7", "8", "9"}

DigitVal(c) ==
    CASE c = "0" -> 0 [] c = "1" -> 1 [] c = "2" -> 2 [] c = "3" -> 3
      [] c = "4" -> 4 [] c = "5" -> 5 [] c = "6" -> 6 [] c = "7" -> 7
      [] c = "8" -> 8 [] c = "9" -> 9

RECURSIVE DecVal(_)
DecVal(chars) ==
    IF chars = <<>> THEN 0
    ELSE 10 * DecVal(SubSeq(chars, 1, Len(chars) - 1)) + DigitVal(chars[Len(chars)])

(* int(request.args.get('bars', 100)): the query value is a string, given  *)
(* here as its characters; a string that is no decimal literal raises      *)
(* ValueError.  The default is the integer 100 itself.                     *)
PyInt(args) ==
    IF "bars" \notin DOMAIN args THEN [ok |-> TRUE, val |-> DefaultBars]
    ELSE IF args["bars"] # <<>> /\ \A i \in DOMAIN args["bars"] : args["bars"][i] \in Digits
         THEN [ok |-> TRUE, val |-> DecVal(args["bars"])]
         ELSE [ok |-> FALSE, val |-> 0]

NoResponse == [tuple |-> FALSE, status |-> 0, json |-> <<>>]

(* return jsonify(body): a bare Response, status 200 *)
Jsonify(body) == [tuple |-> FALSE, status |-> HTTP_OK, json |-> body]

(* return jsonify({'error': msg}), code: a (Response, code) tuple *)
JsonError(msg, code) == [tuple |-> TRUE, status |-> code, json |-> [error |-> msg]]

(* An exception that leaves the handler: the framework answers, not the handler *)
Uncaught(exc) == [tuple |-> FALSE, status |-> HTTP_SERVER_ERROR, json |-> [uncaught |-> exc]]

IsError(resp) == "error" \in DOMAIN resp.json

IsUncaught(resp) == "uncaught" \in DOMAIN resp.json

IsSuccess(resp) == ~IsError(resp) /\ ~IsUncaught(resp) /\ resp.status = HTTP_OK

----------------------------------------------------------------------------
(* The Signal Classifier: the labels get_data derives from the latest row  *)

(* df_reset.iloc[i]: row i of the frame, all columns *)
Row(frame, i) ==
    [c \in Columns(frame) |->
        IF c \in DOMAIN frame.cols THEN frame.cols[c][i] ELSE frame.latest[c]]

(* A variant: the comparisons are not strict *)
Tendance_NonStrict(current) ==
    IF ~Lt(current["close"], current["ema_20"]) /\ ~Lt(current["ema_20"], current["ema_50"])
    THEN "HAUSSIÈRE"
    ELSE IF ~Gt(current["close"], current["ema_20"]) /\ ~Gt(current["ema_20"], current["ema_50"])
    THEN "BAISSIÈRE"
    ELSE "NEUTRE"

Tendance(current) ==
    IF Gt(current["close"], current["ema_20"]) /\ Gt(current["ema_20"], current["ema_50"])
    THEN "HAUSSIÈRE"
    ELSE IF Lt(current["close"], current["ema_20"]) /\ Lt(current["ema_20"], current["ema_50"])
    THEN "BAISSIÈRE"
    ELSE "NEUTRE"

RsiSignal(current) ==
    IF Gt(current["rsi"], Num(RsiOverbought)) THEN "SURACHETÉ"
    ELSE IF Lt(current["rsi"], Num(RsiOversold)) THEN "SURVENDU"
    ELSE "NEUTRE"

(* A variant: a three-way rule that keeps the initial value on a tie *)
MacdSignalTxt_ThreeWay(current) ==
    IF Gt(current["macd"], current["macd_signal"]) THEN "HAUSSIER"
    ELSE IF Lt(current["macd"], current["macd_signal"]) THEN "BAISSIER"
    ELSE "NEUTRE"

MacdSignalTxt(current) ==
    IF Gt(current["macd"], current["macd_signal"]) THEN "HAUSSIER" ELSE "BAISSIER"

BollPosition(current) ==
    IF Gt(current["close"], current["bb_middle"]) THEN "proche_resistance"
    ELSE "proche_support"

Niveaux(current) ==
    [resistance          |-> current["resistance"],
     support             |-> current["support"],
     distance_resistance |-> Sub(current["resistance"], current["close"]),
     distance_support    |-> Sub(current["close"], current["support"])]

PositionVsEma20(current) ==
    IF Gt(current["close"], current["ema_20"]) THEN "AU-DESSUS" ELSE "EN-DESSOUS"

Force(current) ==
    IF Gt(Abs(Sub(current["close"], current["ema_20"])), current["atr"])
    THEN "FORTE" ELSE "FAIBLE"

(* df_reset.tail(10): the rows dumped in donnees_brutes *)
DonneesBrutes(n) == [k \in 1..Min2(TailRows, n) |-> n - Min2(TailRows, n) + k]

BuildResponse(symbol, interval, frame) ==
    LET current  == Row(frame, frame.index)
        previous == Row(frame, frame.index - 1)
    IN [symbol             |-> symbol,
        interval           |-> interval,
        timestamp          |-> frame.index,
        prix_actuel        |-> current["close"],
        variation          |-> Sub(current["close"], previous["close"]),
        variation_pourcent |-> Pct(Sub(current["close"], previous["close"]), previous["close"]),
        indicateurs        |-> [rsi             |-> current["rsi"],
                                rsi_signal      |-> RsiSignal(current),
                                macd            |-> current["macd"],
                                macd_signal     |-> current["macd_signal"],
                                macd_diff       |-> current["macd_diff"],
                                macd_signal_txt |-> MacdSignalTxt(current),
                                stoch_k         |-> current["stoch_k"],
                                stoch_d         |-> current["stoch_d"],
                                atr             |-> current["atr"],
                                ema_20          |-> current["ema_20"],
                                ema_50          |-> current["ema_50"],
                                ema_200         |-> current["ema_200"]],
        bollinger          |-> [upper    |-> current["bb_upper"],
                                middle   |-> current["bb_middle"],
                                lower    |-> current["bb_lower"],
                                position |-> BollPosition(current)],
        niveaux            |-> Niveaux(current),
        analyse            |-> [tendance          |-> Tendance(current),
                                position_vs_ema20 |-> PositionVsEma20(current),
                                force             |-> Force(current)],
        donnees_brutes     |-> DonneesBrutes(frame.index)]

----------------------------------------------------------------------------
(* get_data(): the /data handler.  args is request.args; prov is what      *)
(* tv.get_hist answers (an exception, None, or a frame, empty or not);     *)
(* lib is what the ta library answers.  The result holds the response and  *)
(* the frame object as the handler leaves it.                              *)

Return(resp, frame) == [raised |-> FALSE, exc |-> "", ret |-> resp, frame |-> frame]

Raise(exc, frame) == [raised |-> TRUE, exc |-> exc, ret |-> NoResponse, frame |-> frame]

(* The body of the try block *)
get_data_try(args, prov, lib) ==
    LET symbol   == ArgGet(args, "symbol", "XAUUSD")
        interval == ArgGet(args, "interval", "1h")
        bars     == PyInt(args)
    IN  IF ~bars.ok
        THEN Raise("invalid literal for int() with base 10", NoFrame)
        ELSE IF symbol \notin SYMBOLS
        THEN Return(JsonError("Symbol " \o symbol \o " not supported", HTTP_BAD_REQUEST), NoFrame)
        ELSE IF interval \notin INTERVALS
        THEN Return(JsonError("Interval " \o interval \o " not supported", HTTP_BAD_REQUEST), NoFrame)
        ELSE IF prov.kind = "raise"
        THEN Raise("Connection to remote host was lost", NoFrame)
        ELSE IF prov.kind = "none" \/ prov.frame.index = 0
        THEN Return(JsonError("No data received from TradingView", HTTP_SERVER_ERROR), prov.frame)
        ELSE LET ind == calculate_indicators(prov.frame, lib)
             IN  IF ind.raised
                 THEN Raise("index 13 is out of bounds for axis 0", ind.frame)
                 ELSE IF ind.frame.index < 2
                 THEN Raise("single positional indexer is out-of-bounds", ind.frame)
                 ELSE Return(Jsonify(BuildResponse(symbol, interval, ind.frame)), ind.frame)

(* A variant: no except clause, an exception leaves the handler *)
get_data_NoExcept(args, prov, lib) ==
    LET r == get_data_try(args, prov, lib)
    IN  [resp  |-> IF r.raised THEN Uncaught(r.exc) ELSE r.ret,
         frame |-> r.frame]

(* try: ... except Exception as e: return jsonify({'error': str(e)}), 500 *)
get_data(args, prov, lib) ==
    LET r == get_data_try(args, prov, lib)
    IN  [resp  |-> IF r.raised THEN JsonError(r.exc, HTTP_SERVER_ERROR) ELSE r.ret,
         frame |-> r.frame]

----------------------------------------------------------------------------
(* The environment: the requests, the provider's and the library's answers *)

DataArgs ==
    {EmptyArgs,
     ("symbol" :> "DXY") @@ ("interval" :> "4h") @@ ("bars" :> <<"3">>),
     ("symbol" :> "XAGUSD") @@ ("bars" :> <<"1", "2">>),
     "symbol" :> "BTCUSD",
     "interval" :> "7min",
     ("symbol" :> "BTCUSD") @@ ("interval" :> "7min"),
     "bars" :> <<"x">>,
     "bars" :> <<>>,
     ("symbol" :> "BTCUSD") @@ ("bars" :> <<"1", "x">>)}

(* Whether get_data, on these args, reaches the call of tv.get_hist *)
ReachesProvider(args) ==
    /\ PyInt(args).ok
    /\ ArgGet(args, "symbol", "XAUUSD") \in SYMBOLS
    /\ ArgGet(args, "interval", "1h") \in INTERVALS

NotCalled == [kind |-> "unused", frame |-> NoFrame]

NoLib == [raises |-> FALSE, v |-> <<>>]

(* tv.get_hist(..., n_bars): raises, returns None, or returns a frame of   *)
(* at most n_bars bars                                                     *)
ProviderOutcomes(args) ==
    IF ~ReachesProvider(args) THEN {NotCalled}
    ELSE {[kind |-> "raise", frame |-> NoFrame], [kind |-> "none", frame |-> NoFrame]}
         \cup {[kind |-> "frame", frame |-> Bars(n, shape, last)] :
                  n \in 0..Min2(MaxBars, PyInt(args).val), shape \in Shapes, last \in LastCloses}

LibAnswers(prov) ==
    IF prov.kind # "frame" \/ prov.frame.index = 0 THEN {NoLib}
    ELSE LET n     == prov.frame.index
             close == prov.frame.cols["close"][n][1]
         IN  {[raises |-> r, v |-> v] :
                 r \in {FALSE} \cup {LibMayRaise(n)}, v \in LibOutcomes(n, close)}

----------------------------------------------------------------------------
(* The server *)

NoRequest == [route |-> "", args |-> EmptyArgs, body |-> <<>>]

Init ==
    /\ pc = "idle"
    /\ request = NoRequest
    /\ hist = NotCalled
    /\ df = NoFrame
    /\ response = NoResponse
    /\ results = EmptyDict
    /\ si = 0
    /\ ii = 0
    /\ calls = <<>>

(* GET /data: one run of get_data.  hist is what tv.get_hist answered (the *)
(* frame as the provider returned it), df that same frame object when the *)
(* handler returns.                                                        *)
DataRequest ==
    /\ pc = "idle"
    /\ \E args \in DataArgs :
         \E prov \in ProviderOutcomes(args) :
           \E lib \in LibAnswers(prov) :
              LET r == get_data(args, prov, lib)
              IN  /\ request' = [route |-> "/data", args |-> args, body |-> <<>>]
                  /\ hist' = prov
                  /\ df' = r.frame
                  /\ response' = r.resp
    /\ results' = EmptyDict
    /\ si' = 0
    /\ ii' = 0
    /\ calls' = <<>>
    /\ pc' = "done"

(* The response is sent; the handler's locals are dropped *)
Respond ==
    /\ pc = "done"
    /\ pc' = "idle"
    /\ request' = NoRequest
    /\ hist' = NotCalled
    /\ df' = NoFrame
    /\ response' = NoResponse
    /\ results' = EmptyDict
    /\ si' = 0
    /\ ii' = 0
    /\ calls' = <<>>

----------------------------------------------------------------------------
(* POST /multi: get_multi_data.  request.body is the JSON body (None, or a *)
(* dict that may hold 'symbols' and 'intervals'); request.args the query   *)
(* string.  results is the dict being filled, si and ii the positions of   *)
(* the two loops, calls the calls of get_data made so far: the loop's      *)
(* symbol and interval and the response each got.                          *)

None == [none |-> TRUE]

SeqsUpTo(S, n) == UNION {[1..k -> S] : k \in 0..n}

MultiBodies ==
    {None} \cup
    {a @@ b :
        a \in {EmptyDict} \cup {"symbols" :> l : l \in SeqsUpTo({"XAUUSD", "BTCUSD"}, MaxSymbols)},
        b \in {EmptyDict} \cup {"intervals" :> l : l \in SeqsUpTo({"1h", "7min"}, MaxIntervals)}}

MultiArgs ==
    {EmptyArgs, "symbol" :> "BTCUSD", ("symbol" :> "DXY") @@ ("interval" :> "4h")}

Symbols(req) == ArgGet(req.body, "symbols", <<"XAUUSD">>)

Intervals(req) == ArgGet(req.body, "intervals", <<"1h">>)

(* What tv.get_hist answers to a call made from the batch: an exception,   *)
(* None, a short frame, or a frame long enough for every library call to   *)
(* return                                                                  *)
MultiProviderOutcomes(args) ==
    IF ~ReachesProvider(args) THEN {NotCalled}
    ELSE {[kind |-> "raise", frame |-> NoFrame], [kind |-> "none", frame |-> NoFrame]}
         \cup {[kind |-> "frame", frame |-> Bars(n, "rising", "mid")] :
                  n \in (0..MaxMultiBars) \cup {AtrWindow}}

(* data = request.get_json(); symbols = data.get(...); results = {} *)
MultiRequest ==
    /\ pc = "idle"
    /\ \E body \in MultiBodies, args \in MultiArgs :
          /\ request' = [route |-> "/multi", args |-> args, body |-> body]
          /\ IF body = None
             THEN /\ response' = JsonError("'NoneType' object has no attribute 'get'",
                                           HTTP_SERVER_ERROR)
                  /\ pc' = "done"
                  /\ si' = 0
             ELSE /\ response' = NoResponse
                  /\ pc' = "outer"
                  /\ si' = 1
    /\ results' = EmptyDict
    /\ ii' = 0
    /\ calls' = <<>>
    /\ UNCHANGED <<hist, df>>

(* for symbol in symbols: results[symbol] = {} *)
MultiSymbol ==
    /\ pc = "outer"
    /\ si <= Len(Symbols(request))
    /\ results' = (Symbols(request)[si] :> EmptyDict) @@ results
    /\ ii' = 1
    /\ pc' = "inner"
    /\ UNCHANGED <<request, hist, df, response, si, calls>>

(* The entry the loop body stores for a (Response, code) tuple *)
MultiEntry(resp) ==
    IF resp.status = HTTP_OK THEN resp.json ELSE [error |-> "Failed to fetch"]

(* for interval in intervals: response = get_data(); response[1] ...       *)
(* get_data reads the request of the batch itself (req is never used).     *)
(* response[1] on the bare Response of a success raises TypeError, which   *)
(* the handler's except turns into its own answer.                         *)
MultiInterval ==
    /\ pc = "inner"
    /\ ii <= Len(Intervals(request))
    /\ \E prov \in MultiProviderOutcomes(request.args) :
         \E lib \in LibAnswers(prov) :
            LET symbol   == Symbols(request)[si]
                interval == Intervals(request)[ii]
                r        == get_data(request.args, prov, lib).resp
            IN  /\ calls' = Append(calls, [symbol |-> symbol, interval |-> interval,
                                           success |-> IsSuccess(r), status |-> r.status])
                /\ IF r.tuple
                   THEN /\ results' = (symbol :> ((interval :> MultiEntry(r)) @@ results[symbol]))
                                         @@ results
                        /\ ii' = ii + 1
                        /\ UNCHANGED <<pc, response>>
                   ELSE /\ response' = JsonError("'Response' object is not subscriptable",
                                                 HTTP_SERVER_ERROR)
                        /\ pc' = "done"
                        /\ UNCHANGED <<results, ii>>
    /\ UNCHANGED <<request, hist, df, si>>

(* The inner loop is exhausted: the next symbol *)
MultiNextSymbol ==
    /\ pc = "inner"
    /\ ii > Len(Intervals(request))
    /\ si' = si + 1
    /\ pc' = "outer"
    /\ UNCHANGED <<request, hist, df, response, results, ii, calls>>

(* return jsonify(results) *)
MultiReturn ==
    /\ pc = "outer"
    /\ si > Len(Symbols(request))
    /\ response' = Jsonify(results)
    /\ pc' = "done"
    /\ UNCHANGED <<request, hist, df, results, si, ii, calls>>

Next ==
    \/ DataRequest
    \/ Respond
    \/ MultiRequest
    \/ MultiSymbol
    \/ MultiInterval
    \/ MultiNextSymbol
    \/ MultiReturn

Spec == Init /\ [][Next]_vars

----------------------------------------------------------------------------
(* The states the properties speak of *)

Range(seq) == {seq[k] : k \in DOMAIN seq}

(* get_data has answered a GET /data *)
DataDone == pc = "done" /\ request.route = "/data"

DataSuccess == DataDone /\ IsSuccess(response)

(* get_multi_data has answered a POST /multi whose body is a dict *)
MultiDone == pc = "done" /\ request.route = "/multi" /\ request.body # None

(* calculate_indicators was called on the provider's frame and returned *)
IndicatorsReturned == DataDone /\ hist.kind = "frame" /\ "support" \in DOMAIN df.cols

IndicatorColumns ==
    {"rsi", "macd", "macd_signal", "macd_diff", "bb_upper", "bb_middle", "bb_lower",
     "atr", "stoch_k", "stoch_d", "ema_20", "ema_50", "ema_200", "resistance", "support"}

OrdinaryLabels ==
    {"NEUTRE", "HAUSSIÈRE", "BAISSIÈRE", "SURACHETÉ", "SURVENDU", "HAUSSIER", "BAISSIER",
     "proche_resistance", "proche_support", "FORTE", "FAIBLE"}

IsErrorEntry(e) == "error" \in DOMAIN e

IsResultEntry(e) == {"symbol", "interval", "indicateurs", "analyse"} \subseteq DOMAIN e

(* Call k is the last call made for its (symbol, interval) pair *)
LastCallOfPair(k) ==
    \A m \in DOMAIN calls :
        (calls[m].symbol = calls[k].symbol /\ calls[m].interval = calls[k].interval) => m <= k

----------------------------------------------------------------------------
(* C1: when a batch has been answered, every (symbol, interval)            *)
(* combination of the request was processed (one call of the single        *)
(* pipeline each, whatever the outcomes of the others) and the batch       *)
(* result reports each combination's own outcome: an error entry if its    *)
(* call failed, a result entry if it succeeded.                            *)
C1_EveryCombinationProcessed ==
    MultiDone =>
        /\ Len(calls) = Len(Symbols(request)) * Len(Intervals(request))
        /\ \A k \in DOMAIN calls :
              /\ calls[k].symbol \in DOMAIN response.json
              /\ calls[k].interval \in DOMAIN response.json[calls[k].symbol]
              /\ LastCallOfPair(k) =>
                    (IsErrorEntry(response.json[calls[k].symbol][calls[k].interval])
                        <=> ~calls[k].success)

(* C2: the answer to a batch with symbol list S and interval list I is a   *)
(* mapping with an entry at [s][i] for every (s, i) in S x I, each entry a *)
(* single-pipeline result or an error descriptor.                          *)
C2_MappingCoversCrossProduct ==
    MultiDone =>
        /\ ~response.tuple
        /\ response.status = HTTP_OK
        /\ \A s \in Range(Symbols(request)), i \in Range(Intervals(request)) :
              /\ s \in DOMAIN response.json
              /\ i \in DOMAIN response.json[s]
              /\ IsErrorEntry(response.json[s][i]) \/ IsResultEntry(response.json[s][i])

(* C3: a batch with supported and unsupported instruments is answered with *)
(* a success status; each unsupported instrument's entries are errors, and *)
(* each supported instrument's entry is the result computed for that very  *)
(* symbol and interval whenever the pipeline succeeded for it.             *)
C3_MixedBatch ==
    (/\ MultiDone
     /\ Range(Symbols(request)) \cap SYMBOLS # {}
     /\ Range(Symbols(request)) \ SYMBOLS # {}) =>
        /\ response.status = HTTP_OK
        /\ ~IsError(response)
        /\ \A k \in DOMAIN calls :
              LET s == calls[k].symbol
                  i == calls[k].interval
              IN  /\ s \in DOMAIN response.json
                  /\ i \in DOMAIN response.json[s]
                  /\ s \notin SYMBOLS => IsErrorEntry(response.json[s][i])
                  /\ (s \in SYMBOLS /\ LastCallOfPair(k) /\ calls[k].success) =>
                        /\ IsResultEntry(response.json[s][i])
                        /\ response.json[s][i].symbol = s
                        /\ response.json[s][i].interval = i

(* C4: in a successful answer of get_data, a label whose indicator is      *)
(* missing (NaN) for the latest bar is none of the ordinary label values:  *)
(* it is an explicit "unavailable" state.  Stated on the series of at      *)
(* least AtrWindow bars, on which every library call returns.              *)
C4_MissingIsUnavailable ==
    (DataSuccess /\ df.index >= AtrWindow) =>
        LET j   == response.json
            ind == response.json.indicateurs
        IN  /\ (IsNaN(ind.ema_20) \/ IsNaN(ind.ema_50)) => j.analyse.tendance \notin OrdinaryLabels
            /\ IsNaN(ind.rsi) => ind.rsi_signal \notin OrdinaryLabels
            /\ (IsNaN(ind.macd) \/ IsNaN(ind.macd_signal)) =>
                    ind.macd_signal_txt \notin OrdinaryLabels
            /\ IsNaN(j.bollinger.middle) => j.bollinger.position \notin OrdinaryLabels
            /\ (IsNaN(ind.ema_20) \/ IsNaN(ind.atr)) => j.analyse.force \notin OrdinaryLabels

(* C5: with close, EMA20 and EMA50 defined for the latest bar, the trend   *)
(* is bullish iff close > EMA20 > EMA50 (both strict), bearish iff         *)
(* close < EMA20 < EMA50 (both strict), neutral otherwise; an equality     *)
(* anywhere gives neutral, and the label is one of the three.              *)
C5_TrendRule ==
    DataSuccess =>
        LET c   == response.json.prix_actuel
            e20 == response.json.indicateurs.ema_20
            e50 == response.json.indicateurs.ema_50
            t   == response.json.analyse.tendance
        IN  (~IsNaN(c) /\ ~IsNaN(e20) /\ ~IsNaN(e50)) =>
               /\ t \in {"HAUSSIÈRE", "BAISSIÈRE", "NEUTRE"}
               /\ t = "HAUSSIÈRE" <=> (c[1] > e20[1] /\ e20[1] > e50[1])
               /\ t = "BAISSIÈRE" <=> (c[1] < e20[1] /\ e20[1] < e50[1])
               /\ (c[1] = e20[1] \/ e20[1] = e50[1]) => t = "NEUTRE"

(* C5, the case: close equals EMA20, EMA20 is above EMA50, trend neutral *)
C5_BoundaryNeutral ==
    /\ DataSuccess
    /\ ~IsNaN(response.json.indicateurs.ema_50)
    /\ response.json.prix_actuel = response.json.indicateurs.ema_20
    /\ Gt(response.json.indicateurs.ema_20, response.json.indicateurs.ema_50)
    /\ response.json.analyse.tendance = "NEUTRE"

(* C6: the MACD label is bullish exactly when the MACD line is above the   *)
(* signal line and bearish in every other case, a tie included; it is      *)
(* never the neutral value it is initialised with.                         *)
C6_MacdTwoWay ==
    DataSuccess =>
        LET m == response.json.indicateurs.macd
            g == response.json.indicateurs.macd_signal
            t == response.json.indicateurs.macd_signal_txt
        IN  /\ t \in {"HAUSSIER", "BAISSIER"}
            /\ t = "HAUSSIER" <=> (~IsNaN(m) /\ ~IsNaN(g) /\ m[1] > g[1])
            /\ (~IsNaN(m) /\ m = g) => t = "BAISSIER"

(* C6, the case: MACD line and signal line defined and equal, label bearish *)
C6_TieBearish ==
    /\ DataSuccess
    /\ ~IsNaN(response.json.indicateurs.macd)
    /\ response.json.indicateurs.macd = response.json.indicateurs.macd_signal
    /\ response.json.indicateurs.macd_signal_txt = "BAISSIER"

(* C7: every run of get_data ends in a success result or in a structured   *)
(* error (an error field and status 400 or 500), never in an exception     *)
(* that leaves the handler; an unsupported symbol or interval, a bar count *)
(* that is no integer, a provider exception, a null or empty series and a  *)
(* one-bar series each end in such an error.                               *)
C7_AlwaysStructured ==
    DataDone =>
        /\ ~IsUncaught(response)
        /\ \/ IsSuccess(response)
           \/ /\ IsError(response)
              /\ response.tuple
              /\ response.status \in {HTTP_BAD_REQUEST, HTTP_SERVER_ERROR}
        /\ (\/ ArgGet(request.args, "symbol", "XAUUSD") \notin SYMBOLS
            \/ ArgGet(request.args, "interval", "1h") \notin INTERVALS
            \/ ~PyInt(request.args).ok
            \/ hist.kind \in {"raise", "none"}
            \/ (hist.kind = "frame" /\ hist.frame.index <= 1)) =>
               (IsError(response) /\ response.status # HTTP_OK)

(* C7, the case: the provider returned one bar, the answer is an error 500 *)
C7_OneBarSeries ==
    /\ DataDone
    /\ hist.kind = "frame"
    /\ hist.frame.index = 1
    /\ IsError(response)
    /\ response.status = HTTP_SERVER_ERROR

C10_DistancesNonNegative ==
    DataSuccess =>
        LET nv == response.json.niveaux
            c  == response.json.prix_actuel
        IN  (/\ \A i \in 1..df.index :
                   /\ df.cols["low"][i][1] <= df.cols["close"][i][1]
                   /\ df.cols["close"][i][1] <= df.cols["high"][i][1]
             /\ ~IsNaN(nv.resistance)
             /\ ~IsNaN(nv.support)) =>
                /\ nv.distance_resistance = Num(nv.resistance[1] - c[1])
                /\ nv.distance_resistance[1] >= 0
                /\ nv.distance_support = Num(c[1] - nv.support[1])
                /\ nv.distance_support[1] >= 0

(* C10, the case: the latest bar closes at its high, which is the rolling  *)
(* maximum: the distance to resistance is zero                             *)
C10_AtResistance ==
    /\ DataSuccess
    /\ ~IsNaN(response.json.niveaux.resistance)
    /\ response.json.niveaux.distance_resistance = Num(0)
    /\ Gt(response.json.niveaux.distance_support, Num(0))

====
